---- MODULE Spec2Model ----
(***************************************************************************)
(* awsls (src/main.go): mainExitCode, printResource, printResourcesCsv and *)
(* printHeaderCsv as a state machine.                                      *)
(*                                                                         *)
(* The cloud API client, the Terraform provider and the glob matcher are   *)
(* external: each call's outcome (success or failure, the listed           *)
(* resources, the schema answer, the hydrated state) is chosen by the      *)
(* environment with \E in the action that models the call site.            *)
(* printResource is modelled for every pattern of Patterns, not only for   *)
(* the literal mainExitCode passes at line 127.                            *)
(***************************************************************************)
EXTENDS Integers, Sequences, FiniteSets, TLC

VARIABLES
    pc,                  \* position of the run
    version,             \* --version flag (line 46)
    profilesGiven,       \* profiles != nil after flag parsing (line 43)
    allProfilesFlag,     \* --all-profiles flag (line 44)
    resourceTypePattern, \* printResource's first parameter (line 131)
    clients,             \* keys of the client pool (line 98)
    providers,           \* keys of the provider pool (line 114)
    deferred,            \* the deferred Close loop is registered (line 120)
    closed,              \* providers on which Close has been called (line 122)
    matchedTypes,        \* result of MatchSupportedTypes (line 132)
    ti,                  \* index of rType in matchedTypes (line 142)
    order,               \* clients already visited by the range loop, in order (line 146)
    resources,           \* var resources []aws.Resource (line 143)
    hasAttrs,            \* var hasAttrs map[string]bool, as its key set (line 144)
    stderr,              \* messages written to os.Stderr, in order
    exitCode,            \* <<>> while running, <<c>> once the process has exited
    files,               \* file system: path -> rows written
    outcome,             \* history: per visited client, what its calls returned for rType
    hydrated,            \* history: IDs of the resources passed to GetStates for rType
    getStatesCalls,      \* history: number of GetStates calls for rType
    exportArgs,          \* history: <<>> or <<arguments of printResourcesCsv for rType>>
    fatal                \* history: the fatal error that ended the run, or "none"

vars == <<pc, version, profilesGiven, allProfilesFlag, resourceTypePattern,
          clients, providers, deferred, closed, matchedTypes, ti, order,
          resources, hasAttrs, stderr, exitCode, files, outcome, hydrated,
          getStatesCalls, exportArgs, fatal>>

-----------------------------------------------------------------------------
(* Bounds and program constants *)

\* Most resources one ListResourcesByType call returns.
MaxRes == 1

\* return 0 (lines 61, 128), return 1 (lines 68, 88, 93, 102, 118), and the
\* exit status of a Go process that dies of an unrecovered panic.
ExitSuccess == 0
ExitFailure == 1
PanicExitCode == 2

\* attributes := []string{"private_ip", "public_ip", "tags"} (line 126)
attributes == <<"private_ip", "public_ip", "tags">>

Range(s) == {s[i] : i \in 1..Len(s)}

AttrNames == Range(attributes)

\* The identity keys (profile, region) a client pool can hold.
Keys == {<<"dev", "us-east-1">>, <<"prod", "eu-west-1">>}

\* The registry of supported resource types, in registry order.
SupportedTypes == <<"aws_instance", "aws_vpc">>

\* Patterns handed to printResource: one type, several types, malformed,
\* and no match.
Patterns == {"aws_instance", "aws_*", "aws_[", "gcp_*"}

\* What a provider's schema can say about the requested attributes.
SchemaChoices == {{}, {"tags"}, AttrNames}

\* The attributes a hydrated state can hold a value for.
StateChoices == {{"tags"}, AttrNames}

NoTime == [set |-> FALSE]

LaunchTime == [set |-> TRUE, year |-> 2020, month |-> 3, day |-> 7,
               hour |-> 9, minute |-> 5, second |-> 41]

EmptyState == [a \in {} |-> ""]

-----------------------------------------------------------------------------
(* External collaborators *)

\* resource.MatchSupportedTypes: the glob match of the pattern against the
\* registry, or an error for a malformed pattern.
MatchSupportedTypes(p) ==
    CASE p = "aws_[" -> [err |-> TRUE, types |-> <<>>]
      [] p = "aws_*" -> [err |-> FALSE, types |-> SupportedTypes]
      [] p \in Range(SupportedTypes) -> [err |-> FALSE, types |-> <<p>>]
      [] OTHER -> [err |-> FALSE, types |-> <<>>]

\* aws.ListResourcesByType on success: n resources of the type, owned by key.
\* Instances carry a launch time; the other types have no creation time.
ListResourcesByType(key, rType, n) ==
    [i \in 1..n |->
        [Type |-> rType,
         ID |-> rType \o "/" \o key[1] \o "/" \o key[2] \o "/" \o ToString(i),
         CreatedAt |-> IF rType = "aws_instance" THEN LaunchTime ELSE NoTime,
         Profile |-> key[1],
         Region |-> key[2],
         State |-> EmptyState]]

\* resource.HasAttributes: the requested attributes the schema has, as the
\* key set of the returned map; no map on an error.
HasAttributes(attrs, schema, ok) ==
    IF ok THEN Range(attrs) \cap schema ELSE {}

\* resource.GetStates: every resource whose (Profile, Region) has a provider
\* gets its state filled in; the others are left as they are.
GetStates(res, provs, stateAttrs) ==
    [i \in 1..Len(res) |->
        IF <<res[i].Profile, res[i].Region>> \in provs
        THEN [res[i] EXCEPT !.State =
                 [a \in stateAttrs |-> a \o "=" \o res[i].ID]]
        ELSE res[i]]

\* resource.GetAttribute: the value held by the resource's state, or an error.
GetAttribute(attr, r) ==
    IF attr \in DOMAIN r.State
    THEN [err |-> FALSE, v |-> r.State[attr]]
    ELSE [err |-> TRUE, v |-> ""]

-----------------------------------------------------------------------------
(* printResourcesCsv and printHeaderCsv, as functions of their arguments *)

Pad2(n) == IF n < 10 THEN "0" \o ToString(n) ELSE ToString(n)

\* r.CreatedAt.Format("2006-01-02 15:04:05") (line 204)
Format(t) ==
    ToString(t.year) \o "-" \o Pad2(t.month) \o "-" \o Pad2(t.day) \o " "
        \o Pad2(t.hour) \o ":" \o Pad2(t.minute) \o ":" \o Pad2(t.second)

\* lines 203-207
CreatedColumn(r) == IF r.CreatedAt.set THEN Format(r.CreatedAt) ELSE ""

\* Faulty variant of AttrValue: the extraction error is not turned into
\* "error" (line 218 left out).
AttrValueKeepsFailedValue(attr, r, has) ==
    IF attr \in has THEN GetAttribute(attr, r).v ELSE "N/A"

\* lines 209-220
AttrValue(attr, r, has) ==
    IF attr \in has
    THEN LET g == GetAttribute(attr, r) IN IF g.err THEN "error" ELSE g.v
    ELSE "N/A"

\* lines 202-222
ResourceItem(r, has, attrs) ==
    <<r.Type, r.ID, CreatedColumn(r)>>
        \o [i \in 1..Len(attrs) |-> AttrValue(attrs[i], r, has)]

\* printHeaderCsv, lines 233-242
Header(attrs) == <<"TYPE", "ID", "CREATED">> \o attrs

\* lines 199-228: the rows handed to the csv writer, header first
CsvRows(res, has, attrs) ==
    <<Header(attrs)>> \o [i \in 1..Len(res) |-> ResourceItem(res[i], has, attrs)]

\* line 187
FilePath(name) == "aws-resources/" \o name \o ".csv"

-----------------------------------------------------------------------------
(* mainExitCode *)

\* Faulty variant of Unwind: the providers are closed before return 0 only,
\* not by a deferred call.
UnwindOnReturnOnly(panicking) ==
    IF deferred /\ ~panicking THEN providers ELSE {}

\* The providers the deferred function of lines 120-124 closes when
\* mainExitCode is left, by a return or by a panic passing through it.
Unwind(panicking) == IF deferred THEN providers ELSE {}

\* The process ends: deferred calls run, then the exit status is set.
Exit(code, panicking) ==
    /\ pc' = "exited"
    /\ exitCode' = <<code>>
    /\ closed' = closed \cup Unwind(panicking)

Init ==
    /\ pc = "main"
    /\ version \in BOOLEAN
    /\ profilesGiven \in BOOLEAN
    /\ allProfilesFlag \in BOOLEAN
    /\ resourceTypePattern \in Patterns
    /\ clients = {}
    /\ providers = {}
    /\ deferred = FALSE
    /\ closed = {}
    /\ matchedTypes = <<>>
    /\ ti = 0
    /\ order = <<>>
    /\ resources = <<>>
    /\ hasAttrs = {}
    /\ stderr = <<>>
    /\ exitCode = <<>>
    /\ files = <<>>
    /\ outcome = <<>>
    /\ hydrated = {}
    /\ getStatesCalls = 0
    /\ exportArgs = <<>>
    /\ fatal = "none"

\* lines 59-62
ShowVersion ==
    /\ pc = "main"
    /\ version
    /\ Exit(ExitSuccess, FALSE)
    /\ UNCHANGED <<version, profilesGiven, allProfilesFlag, resourceTypePattern,
                   clients, providers, deferred, matchedTypes, ti, order,
                   resources, hasAttrs, stderr, files, outcome, hydrated,
                   getStatesCalls, exportArgs, fatal>>

\* lines 64-69
ExclusiveFlags ==
    /\ pc = "main"
    /\ ~version
    /\ profilesGiven /\ allProfilesFlag
    /\ stderr' = Append(stderr, "flags")
    /\ fatal' = "flags"
    /\ Exit(ExitFailure, FALSE)
    /\ UNCHANGED <<version, profilesGiven, allProfilesFlag, resourceTypePattern,
                   clients, providers, deferred, matchedTypes, ti, order,
                   resources, hasAttrs, files, outcome, hydrated,
                   getStatesCalls, exportArgs>>

\* lines 78-94: GetAWSProfiles fails, or finds no profile
LoadProfilesFails ==
    /\ pc = "main"
    /\ ~version
    /\ ~(profilesGiven /\ allProfilesFlag)
    /\ allProfilesFlag
    /\ \E msg \in {"load-profiles", "no-profiles"} :
          stderr' = Append(stderr, msg)
    /\ fatal' = "profiles"
    /\ Exit(ExitFailure, FALSE)
    /\ UNCHANGED <<version, profilesGiven, allProfilesFlag, resourceTypePattern,
                   clients, providers, deferred, matchedTypes, ti, order,
                   resources, hasAttrs, files, outcome, hydrated,
                   getStatesCalls, exportArgs>>

\* lines 98-103: NewAWSClientPool fails
NewAWSClientPoolFails ==
    /\ pc = "main"
    /\ ~version
    /\ ~(profilesGiven /\ allProfilesFlag)
    /\ stderr' = Append(stderr, "client-pool")
    /\ fatal' = "client-pool"
    /\ Exit(ExitFailure, FALSE)
    /\ UNCHANGED <<version, profilesGiven, allProfilesFlag, resourceTypePattern,
                   clients, providers, deferred, matchedTypes, ti, order,
                   resources, hasAttrs, files, outcome, hydrated,
                   getStatesCalls, exportArgs>>

\* lines 71-107: the profiles are settled and NewAWSClientPool returns a pool
NewAWSClientPool ==
    /\ pc = "main"
    /\ ~version
    /\ ~(profilesGiven /\ allProfilesFlag)
    /\ \E pool \in SUBSET Keys \ {{}} : clients' = pool
    /\ pc' = "providerPool"
    /\ UNCHANGED <<version, profilesGiven, allProfilesFlag, resourceTypePattern,
                   providers, deferred, closed, matchedTypes, ti, order,
                   resources, hasAttrs, stderr, exitCode, files, outcome,
                   hydrated, getStatesCalls, exportArgs, fatal>>

\* lines 114-119: NewProviderPool fails
NewProviderPoolFails ==
    /\ pc = "providerPool"
    /\ stderr' = Append(stderr, "provider-pool")
    /\ fatal' = "provider-pool"
    /\ Exit(ExitFailure, FALSE)
    /\ UNCHANGED <<version, profilesGiven, allProfilesFlag, resourceTypePattern,
                   clients, providers, deferred, matchedTypes, ti, order,
                   resources, hasAttrs, files, outcome, hydrated,
                   getStatesCalls, exportArgs>>

\* lines 114-127: one provider per client key, the deferred Close loop is
\* registered, printResource is called
NewProviderPool ==
    /\ pc = "providerPool"
    /\ providers' = clients
    /\ deferred' = TRUE
    /\ pc' = "printResource"
    /\ UNCHANGED <<version, profilesGiven, allProfilesFlag, resourceTypePattern,
                   clients, closed, matchedTypes, ti, order, resources,
                   hasAttrs, stderr, exitCode, files, outcome, hydrated,
                   getStatesCalls, exportArgs, fatal>>

-----------------------------------------------------------------------------
(* printResource *)

\* Faulty variant of InvalidGlobPattern: the error is reported and
\* printResource goes on with no matched type.
InvalidGlobPatternContinues ==
    /\ pc = "printResource"
    /\ MatchSupportedTypes(resourceTypePattern).err
    /\ stderr' = Append(stderr, "invalid-glob")
    /\ matchedTypes' = <<>>
    /\ pc' = "loop"
    /\ UNCHANGED <<version, profilesGiven, allProfilesFlag, resourceTypePattern,
                   clients, providers, deferred, closed, ti, order, resources,
                   hasAttrs, exitCode, files, outcome, hydrated,
                   getStatesCalls, exportArgs, fatal>>

\* lines 132-136: the pattern is malformed
InvalidGlobPattern ==
    /\ pc = "printResource"
    /\ MatchSupportedTypes(resourceTypePattern).err
    /\ stderr' = Append(stderr, "invalid-glob")
    /\ fatal' = "invalid-glob"
    /\ Exit(PanicExitCode, TRUE)
    /\ UNCHANGED <<version, profilesGiven, allProfilesFlag, resourceTypePattern,
                   clients, providers, deferred, matchedTypes, ti, order,
                   resources, hasAttrs, files, outcome, hydrated,
                   getStatesCalls, exportArgs>>

\* lines 132-140: the pattern is well formed
MatchTypes ==
    /\ pc = "printResource"
    /\ ~MatchSupportedTypes(resourceTypePattern).err
    /\ matchedTypes' = MatchSupportedTypes(resourceTypePattern).types
    /\ stderr' = IF Len(matchedTypes') = 0
                 THEN Append(stderr, "no-type") ELSE stderr
    /\ pc' = "loop"
    /\ UNCHANGED <<version, profilesGiven, allProfilesFlag, resourceTypePattern,
                   clients, providers, deferred, closed, ti, order, resources,
                   hasAttrs, exitCode, files, outcome, hydrated,
                   getStatesCalls, exportArgs, fatal>>

\* lines 142-144: the next matched type, with fresh resources and hasAttrs
NextType ==
    /\ pc = "loop"
    /\ ti < Len(matchedTypes)
    /\ ti' = ti + 1
    /\ order' = <<>>
    /\ resources' = <<>>
    /\ hasAttrs' = {}
    /\ outcome' = <<>>
    /\ hydrated' = {}
    /\ getStatesCalls' = 0
    /\ exportArgs' = <<>>
    /\ pc' = "clients"
    /\ UNCHANGED <<version, profilesGiven, allProfilesFlag, resourceTypePattern,
                   clients, providers, deferred, closed, matchedTypes, stderr,
                   exitCode, files, fatal>>

\* lines 183 and 128: no type is left, printResource returns, return 0
Return ==
    /\ pc = "loop"
    /\ ti >= Len(matchedTypes)
    /\ Exit(ExitSuccess, FALSE)
    /\ UNCHANGED <<version, profilesGiven, allProfilesFlag, resourceTypePattern,
                   clients, providers, deferred, matchedTypes, ti, order,
                   resources, hasAttrs, stderr, files, outcome, hydrated,
                   getStatesCalls, exportArgs, fatal>>

rType == matchedTypes[ti]

Visited == Range(order)

\* Faulty variants of ShouldHydrate: the state is always fetched, or never.
AlwaysHydrate(has) == TRUE

NeverHydrate(has) == FALSE

\* line 169
ShouldHydrate(has) == Cardinality(has) > 0

RECURSIVE SetToSeq(_)
SetToSeq(S) ==
    IF S = {} THEN <<>>
    ELSE LET x == CHOOSE y \in S : TRUE IN <<x>> \o SetToSeq(S \ {x})

\* Faulty variant of AfterListFailure: break instead of continue, the
\* clients not yet visited are never processed.
ListFailureEndsLoop(ord, key) ==
    Append(ord, key) \o SetToSeq(clients \ (Range(ord) \cup {key}))

\* line 156: continue
AfterListFailure(ord, key) == Append(ord, key)

\* Faulty variant of AfterSchemaFailure: the listing is appended although
\* the schema query failed.
KeepOnSchemaFailure(all, res) == all \o res

\* line 166: continue
AfterSchemaFailure(all, res) == all

\* Faulty variant of AfterClient: the listing replaces the collection.
ReplaceOnClient(all, res) == res

\* line 175
AfterClient(all, res) == all \o res

IDs(res) == {res[i].ID : i \in 1..Len(res)}

\* Faulty variant of SetAccountIDFails: the failure ends the run through
\* return 1 instead of a panic.
SetAccountIDFailsReturnsOne(key) ==
    /\ pc = "clients"
    /\ key \in clients \ Range(order)
    /\ stderr' = Append(stderr, "account")
    /\ fatal' = "account"
    /\ Exit(ExitFailure, FALSE)
    /\ UNCHANGED <<version, profilesGiven, allProfilesFlag, resourceTypePattern,
                   clients, providers, deferred, matchedTypes, ti, order,
                   resources, hasAttrs, files, outcome, hydrated,
                   getStatesCalls, exportArgs>>

\* lines 146-151: SetAccountID fails for the next client
SetAccountIDFails(key) ==
    /\ pc = "clients"
    /\ key \in clients \ Visited
    /\ stderr' = Append(stderr, "account")
    /\ fatal' = "account"
    /\ Exit(PanicExitCode, TRUE)
    /\ UNCHANGED <<version, profilesGiven, allProfilesFlag, resourceTypePattern,
                   clients, providers, deferred, matchedTypes, ti, order,
                   resources, hasAttrs, files, outcome, hydrated,
                   getStatesCalls, exportArgs>>

\* lines 146-157: ListResourcesByType fails for the next client
ListFails(key) ==
    /\ pc = "clients"
    /\ key \in clients \ Visited
    /\ stderr' = Append(stderr, "list")
    /\ order' = AfterListFailure(order, key)
    /\ \E schema \in SchemaChoices :
          outcome' = (key :> [list |-> FALSE, schemaOk |-> FALSE,
                              schema |-> schema, ids |-> {}, has |-> {}])
                        @@ outcome
    /\ UNCHANGED <<pc, version, profilesGiven, allProfilesFlag,
                   resourceTypePattern, clients, providers, deferred, closed,
                   matchedTypes, ti, resources, hasAttrs, exitCode, files,
                   hydrated, getStatesCalls, exportArgs, fatal>>

\* lines 146-167: the listing succeeds, HasAttributes fails
SchemaFails(key) ==
    /\ pc = "clients"
    /\ key \in clients \ Visited
    /\ \E n \in 0..MaxRes, schema \in SchemaChoices :
          LET res == ListResourcesByType(key, rType, n) IN
          /\ hasAttrs' = HasAttributes(attributes, schema, FALSE)
          /\ resources' = AfterSchemaFailure(resources, res)
          /\ outcome' = (key :> [list |-> TRUE, schemaOk |-> FALSE,
                                 schema |-> schema, ids |-> IDs(res),
                                 has |-> {}])
                           @@ outcome
    /\ stderr' = Append(stderr, "schema")
    /\ order' = Append(order, key)
    /\ UNCHANGED <<pc, version, profilesGiven, allProfilesFlag,
                   resourceTypePattern, clients, providers, deferred, closed,
                   matchedTypes, ti, exitCode, files, hydrated,
                   getStatesCalls, exportArgs, fatal>>

\* lines 146-175: the listing and HasAttributes succeed
ClientDone(key) ==
    /\ pc = "clients"
    /\ key \in clients \ Visited
    /\ \E n \in 0..MaxRes, schema \in SchemaChoices, stateAttrs \in StateChoices :
          LET listed == ListResourcesByType(key, rType, n)
              has == HasAttributes(attributes, schema, TRUE)
              res == IF ShouldHydrate(has)
                     THEN GetStates(listed, providers, stateAttrs)
                     ELSE listed
          IN
          \* the state a provider returns matters only if it is asked
          /\ ~ShouldHydrate(has) => stateAttrs = AttrNames
          /\ hasAttrs' = has
          /\ resources' = AfterClient(resources, res)
          /\ hydrated' = IF ShouldHydrate(has)
                         THEN hydrated \cup IDs(listed) ELSE hydrated
          /\ getStatesCalls' = IF ShouldHydrate(has)
                               THEN getStatesCalls + 1 ELSE getStatesCalls
          /\ outcome' = (key :> [list |-> TRUE, schemaOk |-> TRUE,
                                 schema |-> schema, ids |-> IDs(listed),
                                 has |-> has])
                           @@ outcome
    /\ order' = Append(order, key)
    /\ UNCHANGED <<pc, version, profilesGiven, allProfilesFlag,
                   resourceTypePattern, clients, providers, deferred, closed,
                   matchedTypes, ti, stderr, exitCode, files, exportArgs,
                   fatal>>

\* lines 178-180: no resources for the type
SkipEmptyType ==
    /\ pc = "clients"
    /\ Visited = clients
    /\ Len(resources) = 0
    /\ pc' = "loop"
    /\ UNCHANGED <<version, profilesGiven, allProfilesFlag, resourceTypePattern,
                   clients, providers, deferred, closed, matchedTypes, ti,
                   order, resources, hasAttrs, stderr, exitCode, files,
                   outcome, hydrated, getStatesCalls, exportArgs, fatal>>

-----------------------------------------------------------------------------
(* printResourcesCsv, called at line 181 with the PATTERN as its first     *)
(* argument                                                                *)

CsvArgs ==
    [name |-> resourceTypePattern, rType |-> rType, resources |-> resources,
     hasAttrs |-> hasAttrs, attributes |-> attributes]

\* lines 186-230: the file is created and every row is written
PrintResourcesCsv ==
    /\ pc = "clients"
    /\ Visited = clients
    /\ Len(resources) > 0
    /\ exportArgs' = <<CsvArgs>>
    /\ files' = (FilePath(CsvArgs.name)
                    :> CsvRows(resources, hasAttrs, attributes)) @@ files
    /\ pc' = "loop"
    /\ UNCHANGED <<version, profilesGiven, allProfilesFlag, resourceTypePattern,
                   clients, providers, deferred, closed, matchedTypes, ti,
                   order, resources, hasAttrs, stderr, exitCode, outcome,
                   hydrated, getStatesCalls, fatal>>

\* lines 188-195: MkdirAll or Create fails, panic
CreateFails ==
    /\ pc = "clients"
    /\ Visited = clients
    /\ Len(resources) > 0
    /\ exportArgs' = <<CsvArgs>>
    /\ fatal' = "csv"
    /\ Exit(PanicExitCode, TRUE)
    /\ UNCHANGED <<version, profilesGiven, allProfilesFlag, resourceTypePattern,
                   clients, providers, deferred, matchedTypes, ti, order,
                   resources, hasAttrs, stderr, files, outcome, hydrated,
                   getStatesCalls>>

\* lines 192-226: the file is created, a Write fails after k rows reached
\* the file, panic
WriteFails ==
    /\ pc = "clients"
    /\ Visited = clients
    /\ Len(resources) > 0
    /\ exportArgs' = <<CsvArgs>>
    /\ \E k \in 0..Len(resources) :
          files' = (FilePath(CsvArgs.name)
                       :> SubSeq(CsvRows(resources, hasAttrs, attributes), 1, k))
                      @@ files
    /\ fatal' = "csv"
    /\ Exit(PanicExitCode, TRUE)
    /\ UNCHANGED <<version, profilesGiven, allProfilesFlag, resourceTypePattern,
                   clients, providers, deferred, matchedTypes, ti, order,
                   resources, hasAttrs, stderr, outcome, hydrated,
                   getStatesCalls>>

-----------------------------------------------------------------------------

Next ==
    \/ ShowVersion
    \/ ExclusiveFlags
    \/ LoadProfilesFails
    \/ NewAWSClientPoolFails
    \/ NewAWSClientPool
    \/ NewProviderPoolFails
    \/ NewProviderPool
    \/ InvalidGlobPattern
    \/ MatchTypes
    \/ NextType
    \/ Return
    \/ \E key \in Keys : SetAccountIDFails(key)
    \/ \E key \in Keys : ListFails(key)
    \/ \E key \in Keys : SchemaFails(key)
    \/ \E key \in Keys : ClientDone(key)
    \/ SkipEmptyType
    \/ PrintResourcesCsv
    \/ CreateFails
    \/ WriteFails

Spec == Init /\ [][Next]_vars

-----------------------------------------------------------------------------
(* Vocabulary of the properties *)

\* printResource has finished the client loop and the export of rType.
TypeDone == pc = "loop" /\ ti >= 1

\* printResourcesCsv ran to its end for rType.
Exported == TypeDone /\ exportArgs # <<>>

\* The rows of the file the last printResourcesCsv call wrote.
WrittenRows == files[FilePath(exportArgs[1].name)]

\* The IDs of the data rows of that file.
WrittenIDs == {WrittenRows[i][2] : i \in 2..Len(WrittenRows)}

\* The attribute cells of that file's data rows.
AttrCells ==
    {WrittenRows[i][3 + j] : i \in 2..Len(WrittenRows), j \in 1..Len(attributes)}

Dev == <<"dev", "us-east-1">>

Prod == <<"prod", "eu-west-1">>

\* The pattern is malformed, or matches no supported type.
ZeroMatch ==
    /\ ~MatchSupportedTypes(resourceTypePattern).err
    /\ Len(MatchSupportedTypes(resourceTypePattern).types) = 0

Malformed == MatchSupportedTypes(resourceTypePattern).err

\* printResource has been entered and has ended, one way or the other.
RunEnded == pc = "exited" /\ deferred

NothingQueriedOrWritten == order = <<>> /\ outcome = <<>> /\ files = <<>>

-----------------------------------------------------------------------------
(* C1 *)

\* Some client's provider has at least one requested attribute in its schema
\* for rType.
SomeProviderSupports ==
    \E k \in DOMAIN outcome : outcome[k].schema \cap AttrNames # {}

\* Some client got through its listing and its schema query with a
\* non-empty support map.
SomeClientGotSupport ==
    \E k \in DOMAIN outcome :
        outcome[k].list /\ outcome[k].schemaOk /\ outcome[k].has # {}

\* C1 as stated: for a processed type, GetStates is invoked if and only if
\* some client's provider supports a requested attribute; and if no
\* provider supports any, GetStates is never invoked and every attribute
\* column of every exported row reads "N/A".
C1_Original ==
    TypeDone =>
        /\ (getStatesCalls > 0) <=> SomeProviderSupports
        /\ ~SomeProviderSupports =>
              /\ getStatesCalls = 0
              /\ Exported => AttrCells \subseteq {"N/A"}

\* C1 amended: during and after the client loop of a type, GetStates has
\* been invoked if and only if some client's listing succeeded and its
\* schema query succeeded with a non-empty support map (a provider whose
\* client's listing failed is never asked); and if no provider supports a
\* requested attribute, GetStates is never invoked and every attribute
\* column of every exported row reads "N/A".
C1_HydrationIffClientGotSupport ==
    (pc \in {"clients", "loop"} /\ ti >= 1) =>
        /\ (getStatesCalls > 0) <=> SomeClientGotSupport
        /\ ~SomeProviderSupports =>
              /\ getStatesCalls = 0
              /\ hydrated = {}
              /\ Exported => AttrCells \subseteq {"N/A"}

\* A type is done, GetStates was invoked for one client, and another client,
\* whose provider supports an attribute, failed its listing.
C1_Witness ==
    /\ Exported
    /\ getStatesCalls > 0
    /\ \E k \in DOMAIN outcome : ~outcome[k].list /\ outcome[k].schema # {}

\* A type is exported with no provider supporting any requested attribute.
C1_WitnessNoSupport ==
    Exported /\ ~SomeProviderSupports /\ AttrCells = {"N/A"}

-----------------------------------------------------------------------------
(* C2 *)

\* C2: once the provider pool is built, every provider of the pool has had
\* Close called on it when the run has ended, whether mainExitCode returned
\* or a panic of printResource or printResourcesCsv passed through it; and
\* Close is called on nothing before the run ends.
C2_ProvidersReleasedOnEveryExit ==
    /\ RunEnded => closed = providers
    /\ pc # "exited" => closed = {}

\* The run ended by a panic and both providers were closed.
C2_Witness ==
    /\ RunEnded
    /\ fatal \in {"invalid-glob", "account", "csv"}
    /\ providers = Keys
    /\ closed = Keys

-----------------------------------------------------------------------------
(* C3 *)

SetupErrors == {"flags", "profiles", "client-pool", "provider-pool"}

\* C3 as stated: every fatal error, the account-identity failure included,
\* ends the run with exit code 1 after a message on the error stream, and
\* exit code 0 is returned only when none occurred.
C3_Original ==
    pc = "exited" =>
        /\ fatal \in SetupErrors \cup {"account"} =>
              exitCode = <<ExitFailure>> /\ Len(stderr) > 0
        /\ exitCode = <<ExitSuccess>> => fatal \notin SetupErrors \cup {"account"}

\* C3 amended: the flag misuse, the profile discovery failure and the
\* client or provider pool construction failure end the run with exit code 1
\* after a message on the error stream; an account-identity failure ends it,
\* after its message, by a panic, so with the exit status of a panic (2), not
\* 1; every fatal error ends the run at once; and exit code 0 is returned
\* only when none occurred.
C3_SetupErrorsExitOneAccountPanics ==
    /\ fatal # "none" => pc = "exited"
    /\ pc = "exited" =>
          /\ fatal \in SetupErrors =>
                exitCode = <<ExitFailure>> /\ Len(stderr) > 0
          /\ fatal = "account" =>
                /\ exitCode = <<PanicExitCode>>
                /\ Len(stderr) > 0
                /\ stderr[Len(stderr)] = "account"
          /\ exitCode = <<ExitSuccess>> => fatal = "none"

\* The second client's SetAccountID failed and the process ended with 2.
C3_Witness ==
    /\ pc = "exited"
    /\ fatal = "account"
    /\ Len(order) = 1
    /\ exitCode = <<PanicExitCode>>

-----------------------------------------------------------------------------
(* C4 *)

\* C4 as stated: a malformed pattern and a pattern without a match are both
\* reported and neither aborts the run: no client is queried, no file is
\* created, and the run ends with exit code 0.
C4_Original ==
    /\ (Malformed \/ ZeroMatch) => NothingQueriedOrWritten
    /\ (RunEnded /\ (Malformed \/ ZeroMatch)) =>
          /\ Len(stderr) > 0
          /\ exitCode = <<ExitSuccess>>

\* C4 amended: a pattern without a match is reported and does not abort the
\* run (no client is queried, no file is created, exit code 0); a malformed
\* pattern is reported and then aborts the run by a panic (no client is
\* queried, no file is created, the process ends with a panic's status).
C4_ZeroMatchContinuesMalformedPanics ==
    /\ (Malformed \/ ZeroMatch) => NothingQueriedOrWritten
    /\ (RunEnded /\ ZeroMatch) =>
          /\ stderr = <<"no-type">>
          /\ fatal = "none"
          /\ exitCode = <<ExitSuccess>>
    /\ (RunEnded /\ Malformed) =>
          /\ stderr = <<"invalid-glob">>
          /\ fatal = "invalid-glob"
          /\ exitCode = <<PanicExitCode>>

\* A run with a pattern that matches nothing has ended with exit code 0.
C4_Witness ==
    RunEnded /\ ZeroMatch /\ exitCode = <<ExitSuccess>> /\ closed = Keys

\* A run with a malformed pattern has ended.
C4_WitnessMalformed == RunEnded /\ Malformed

-----------------------------------------------------------------------------
(* C5 *)

\* C5: when a type is done, every client of the pool has been processed for
\* it, whatever failed for the others and in whatever order they were
\* visited; and if rows were exported, the resources of every client whose
\* listing and schema query succeeded are among them.
C5_ListFailureSkipsOnlyThatClient ==
    TypeDone =>
        /\ DOMAIN outcome = clients
        /\ \A k \in DOMAIN outcome :
              (outcome[k].list /\ outcome[k].schemaOk) =>
                 /\ outcome[k].ids \subseteq IDs(resources)
                 /\ Exported => outcome[k].ids \subseteq WrittenIDs

\* The first client's listing failed, the second client was still
\* processed, and its resource is in the exported rows.
C5_Witness ==
    /\ Exported
    /\ Len(order) = 2
    /\ ~outcome[order[1]].list
    /\ outcome[order[2]].list /\ outcome[order[2]].schemaOk
    /\ outcome[order[2]].ids # {}
    /\ outcome[order[2]].ids \subseteq WrittenIDs

-----------------------------------------------------------------------------
(* C6 *)

SchemaFailed(k) == outcome[k].list /\ ~outcome[k].schemaOk

\* C6 as stated: the resources listed by a client whose schema query failed
\* still appear in the export of the type, with "N/A" in their attribute
\* columns.
C6_Original ==
    TypeDone =>
        \A k \in DOMAIN outcome :
            (SchemaFailed(k) /\ outcome[k].ids # {}) =>
                /\ Exported
                /\ outcome[k].ids \subseteq WrittenIDs
                /\ \A i \in 2..Len(WrittenRows) :
                      WrittenRows[i][2] \in outcome[k].ids =>
                          \A j \in 1..Len(attributes) :
                              WrittenRows[i][3 + j] = "N/A"

\* C6 amended: when the schema query fails for a client whose listing
\* succeeded, processing continues with the other clients, but that client's
\* listed resources are dropped: none of them is in the collection of the
\* type and none of them gets a row in the export.
C6_SchemaFailureDropsClient ==
    TypeDone =>
        /\ DOMAIN outcome = clients
        /\ \A k \in DOMAIN outcome :
              SchemaFailed(k) =>
                 /\ outcome[k].ids \cap IDs(resources) = {}
                 /\ Exported => outcome[k].ids \cap WrittenIDs = {}

\* The first client's schema query failed after it listed a resource, the
\* second client was processed, and rows were exported.
C6_Witness ==
    /\ Exported
    /\ Len(order) = 2
    /\ SchemaFailed(order[1])
    /\ outcome[order[1]].ids # {}
    /\ outcome[order[2]].schemaOk

-----------------------------------------------------------------------------
(* C7 *)

\* The scenario: pattern aws_instance, the clients dev/us-east-1 and
\* prod/eu-west-1, one instance each, dev's provider supports all three
\* attributes, prod's only tags, the export was written and holds no
\* extraction error.
Scenario ==
    /\ resourceTypePattern = "aws_instance"
    /\ clients = {Dev, Prod}
    /\ Exported
    /\ \A k \in {Dev, Prod} :
          /\ k \in DOMAIN outcome
          /\ outcome[k].list /\ outcome[k].schemaOk
          /\ Cardinality(outcome[k].ids) = 1
    /\ outcome[Dev].schema = AttrNames
    /\ outcome[Prod].schema = {"tags"}
    /\ "error" \notin AttrCells

\* dev's row of the written file.
DevRow ==
    WrittenRows[CHOOSE i \in 2..Len(WrittenRows) :
                    WrittenRows[i][2] \in outcome[Dev].ids]

Concrete(cell) == cell \notin {"N/A", "error"}

\* C7 as stated: in the scenario, for every order of the two clients, the
\* file holds a header and two data rows, hydration ran, and dev's row shows
\* concrete values for all three attributes.
C7_Original ==
    Scenario =>
        /\ Len(WrittenRows) = 3
        /\ getStatesCalls > 0
        /\ \A j \in 1..Len(attributes) : Concrete(DevRow[3 + j])

\* C7 amended: in the scenario, for every order of the two clients, the file
\* holds a header and two data rows and hydration ran for both clients;
\* dev's row shows a concrete value for tags; it shows concrete values for
\* private_ip and public_ip when dev is processed last, and "N/A" for both
\* when prod is processed last.
C7_DevRowFollowsLastClient ==
    Scenario =>
        /\ Len(WrittenRows) = 3
        /\ WrittenRows[1] = <<"TYPE", "ID", "CREATED",
                              "private_ip", "public_ip", "tags">>
        /\ getStatesCalls = 2
        /\ Concrete(DevRow[6])
        /\ order = <<Prod, Dev>> =>
              Concrete(DevRow[4]) /\ Concrete(DevRow[5])
        /\ order = <<Dev, Prod>> =>
              DevRow[4] = "N/A" /\ DevRow[5] = "N/A"

\* The scenario with dev processed last.
C7_Witness == Scenario /\ order = <<Prod, Dev>>

\* The scenario with prod processed last.
C7_WitnessProdLast == Scenario /\ order = <<Dev, Prod>>

-----------------------------------------------------------------------------
(* C8 *)

\* C8: whenever printResource has exported the rows of matched type T, the
\* file aws-resources/T.csv holds them: the header and one row per resource
\* of T.
C8_Original ==
    Exported =>
        /\ FilePath(rType) \in DOMAIN files
        /\ Len(files[FilePath(rType)]) = Len(resources) + 1
        /\ \A i \in 1..Len(resources) :
              files[FilePath(rType)][i + 1][1] = rType

-----------------------------------------------------------------------------
(* C9 *)

\* The timestamp of the listed instances in the layout YYYY-MM-DD HH:MM:SS.
LaunchTimeText == "2020-03-07 09:05:41"

\* C9: the file printResourcesCsv wrote holds the header TYPE, ID, CREATED
\* and the requested attribute names in order, then exactly one row per
\* resource, in order: type, id, the formatted createdAt or the empty
\* string, and per requested attribute, in order, "N/A" if the name is not
\* a key of the support map, "error" if it is and the extraction fails, the
\* extracted value otherwise.
C9_RowFormat ==
    Exported =>
        LET a == exportArgs[1]
            rows == WrittenRows
        IN
        /\ Len(rows) = Len(a.resources) + 1
        /\ Len(rows[1]) = 3 + Len(a.attributes)
        /\ SubSeq(rows[1], 1, 3) = <<"TYPE", "ID", "CREATED">>
        /\ \A j \in 1..Len(a.attributes) : rows[1][3 + j] = a.attributes[j]
        /\ \A i \in 1..Len(a.resources) :
              LET r == a.resources[i]
                  row == rows[i + 1]
              IN
              /\ Len(row) = 3 + Len(a.attributes)
              /\ row[1] = r.Type
              /\ row[2] = r.ID
              /\ row[3] = IF r.CreatedAt = NoTime THEN ""
                          ELSE LaunchTimeText
              /\ \A j \in 1..Len(a.attributes) :
                    LET n == a.attributes[j] IN
                    row[3 + j] =
                        CASE n \notin a.hasAttrs -> "N/A"
                          [] n \in a.hasAttrs /\ n \notin DOMAIN r.State -> "error"
                          [] OTHER -> r.State[n]

\* A written file that holds "N/A", "error" and an extracted value, and a
\* formatted timestamp.
C9_Witness ==
    /\ Exported
    /\ "N/A" \in AttrCells
    /\ "error" \in AttrCells
    /\ \E c \in AttrCells : Concrete(c)
    /\ \E i \in 2..Len(WrittenRows) : WrittenRows[i][3] = LaunchTimeText

\* A written file with a row whose createdAt is absent.
C9_WitnessNoTime ==
    Exported /\ \E i \in 2..Len(WrittenRows) : WrittenRows[i][3] = ""

-----------------------------------------------------------------------------
(* C10 *)

\* C10 as stated: if the support map handed to printResourcesCsv is not
\* empty, every resource of the exported collection was passed to GetStates.
C10_Original ==
    (Exported /\ exportArgs[1].hasAttrs # {}) =>
        IDs(exportArgs[1].resources) \subseteq hydrated

\* C10 amended: GetStates is called per client on that client's listing, not
\* on the accumulated collection: if the support map handed to
\* printResourcesCsv is not empty, every exported resource that came from a
\* client whose own support map was not empty was passed to GetStates
\* before its row was built, and the resources of a client whose own
\* support map was empty were exported without hydration.
C10_HydrationPerClient ==
    (Exported /\ exportArgs[1].hasAttrs # {}) =>
        \A k \in DOMAIN outcome :
            (outcome[k].list /\ outcome[k].schemaOk) =>
                /\ outcome[k].ids \subseteq IDs(exportArgs[1].resources)
                /\ outcome[k].has # {} => outcome[k].ids \subseteq hydrated
                /\ outcome[k].has = {} => outcome[k].ids \cap hydrated = {}

\* Rows were built with a non-empty support map from two clients' resources,
\* the first client's unhydrated, the second client's hydrated.
C10_Witness ==
    /\ Exported
    /\ exportArgs[1].hasAttrs # {}
    /\ Len(order) = 2
    /\ outcome[order[1]].ids # {} /\ outcome[order[1]].has = {}
    /\ outcome[order[1]].schemaOk
    /\ outcome[order[2]].ids # {}
    /\ outcome[order[2]].ids \subseteq hydrated

====
